---- MODULE Spec2Model ----
(***************************************************************************)
(* Dice roller (tools/dice-roller): the notation parser (parser.py), the   *)
(* roller (roller.py) and the statistics of the stats command              *)
(* (dice_roller.py).  Texts are sequences of one-character strings.        *)
(***************************************************************************)
EXTENDS Integers, Sequences, FiniteSets, TLC

\* ------------------------------------------------------------------ bounds
MaxCount == 3    \* largest digit written for a count or a kh/kl/dl/dh value
MaxSides == 3    \* largest digit written for the sides of a die
MaxMod   == 1    \* largest absolute value of a written modifier
MaxSets  == 2    \* largest number of dice tokens in one multi-set text
MaxParts == 3    \* largest number of comma-separated parts in one text
MaxTicks == 3    \* largest number of advances of the clock
ClockStep == 150 \* seconds of one advance of the clock
MaxCalls == 2    \* largest number of calls of CacheManager.set
MaxRepeat == 2   \* largest --repeat of the roll command

\* Optional[int] = None
None == -1

\* roll_with_advantage / roll_with_disadvantage: sides: int = 20
DefaultSides == 20

\* the 5-minute bucket and validity window of the weather cache, in seconds
CacheSeconds == 300

\* RATE_LIMIT_DELAY and max_retries of the Airtable client
RATE_LIMIT_DELAY == 30
max_retries == 3

\* ------------------------------------------------------- characters, text
DigitChars == <<"0", "1", "2", "3", "4", "5", "6", "7", "8", "9">>

IsDigit(c) == \E i \in 1..10 : DigitChars[i] = c

DigitVal(c) == (CHOOSE i \in 1..10 : DigitChars[i] = c) - 1

Whitespace == {" ", "\t"}

\* str.lower() on one character
LowerChar(c) ==
    CASE c = "D" -> "d"
      [] c = "K" -> "k"
      [] c = "H" -> "h"
      [] c = "L" -> "l"
      [] OTHER   -> c

\* lower that leaves the text as written
lower_identity(s) == s

\* str.lower()
lower(s) == [i \in 1..Len(s) |-> LowerChar(s[i])]

\* str.strip()
strip(s) ==
    LET keep == {i \in 1..Len(s) : s[i] \notin Whitespace}
    IN  IF keep = {} THEN <<>>
        ELSE LET lo == CHOOSE i \in keep : \A j \in keep : i <= j
                 hi == CHOOSE i \in keep : \A j \in keep : j <= i
             IN  SubSeq(s, lo, hi)

\* int() of a non-empty run of digits
RECURSIVE int(_)
int(s) ==
    IF Len(s) = 0 THEN 0
    ELSE 10 * int(SubSeq(s, 1, Len(s) - 1)) + DigitVal(s[Len(s)])

\* str() of a natural number
RECURSIVE str_nat(_)
str_nat(n) ==
    IF n < 10 THEN <<DigitChars[n + 1]>>
    ELSE str_nat(n \div 10) \o <<DigitChars[(n % 10) + 1]>>

\* str() of an integer
str_int(n) == IF n < 0 THEN <<"-">> \o str_nat(0 - n) ELSE str_nat(n)

\* index of the last character of the longest run of digits starting at p
\* (p - 1 when s[p] is not a digit)
RECURSIVE DigitRunEnd(_, _)
DigitRunEnd(s, p) ==
    IF p <= Len(s) /\ IsDigit(s[p]) THEN DigitRunEnd(s, p + 1) ELSE p - 1

\* ------------------------------------------------------------- parser.py
\* DiceSet.__str__
DiceSet_str(ds) ==
    LET base == str_nat(ds.count) \o <<"d">> \o str_nat(ds.sides)
    IN  IF ds.keep_highest # None /\ ds.keep_highest # 0
          THEN base \o <<"k", "h">> \o str_nat(ds.keep_highest)
        ELSE IF ds.drop_lowest # None /\ ds.drop_lowest # 0
          THEN base \o <<"d", "l">> \o str_nat(ds.drop_lowest)
        ELSE base

RECURSIVE Concat(_)
Concat(parts) ==
    IF Len(parts) = 0 THEN <<>> ELSE Head(parts) \o Concat(Tail(parts))

\* DiceExpression.__str__
DiceExpression_str(e) ==
    LET parts == [i \in 1..Len(e.dice_sets) |-> DiceSet_str(e.dice_sets[i])]
    IN  Concat(parts) \o
        (IF e.modifier > 0 THEN <<"+">> \o str_nat(e.modifier)
         ELSE IF e.modifier < 0 THEN str_int(e.modifier)
         ELSE <<>>)

\* MODIFIER_PATTERN that matches a '+' only: (\+\d+)$
MODIFIER_PATTERN_plus_only(s) ==
    LET starts == {p \in 1..Len(s) :
                     /\ s[p] = "+"
                     /\ p < Len(s)
                     /\ DigitRunEnd(s, p + 1) = Len(s)}
    IN  IF starts = {} THEN 0 ELSE CHOOSE p \in starts : TRUE

\* MODIFIER_PATTERN.search: start of the match of ([+-]\d+)$, 0 for no match
MODIFIER_PATTERN(s) ==
    LET starts == {p \in 1..Len(s) :
                     /\ s[p] \in {"+", "-"}
                     /\ p < Len(s)
                     /\ DigitRunEnd(s, p + 1) = Len(s)}
    IN  IF starts = {} THEN 0 ELSE CHOOSE p \in starts : TRUE

\* DICE_PATTERN matched at position p: the groups (an absent group is <<>>)
\* and the index of the last character matched; ok = FALSE for no match
DICE_PATTERN(s, p) ==
    LET cEnd  == DigitRunEnd(s, p)
        dPos  == cEnd + 1
        sEnd  == DigitRunEnd(s, dPos + 1)
        isD   == dPos <= Len(s) /\ s[dPos] = "d"
        kind  == IF sEnd + 2 <= Len(s) THEN SubSeq(s, sEnd + 1, sEnd + 2)
                 ELSE <<>>
        vEnd  == DigitRunEnd(s, sEnd + 3)
        hasSfx == /\ kind \in {<<"k", "h">>, <<"k", "l">>,
                               <<"d", "l">>, <<"d", "h">>}
                  /\ vEnd >= sEnd + 3
        val   == IF hasSfx THEN SubSeq(s, sEnd + 3, vEnd) ELSE <<>>
        grp(k) == IF hasSfx /\ kind = k THEN val ELSE <<>>
    IN  IF isD /\ sEnd >= dPos + 1
        THEN [ok |-> TRUE,
              count |-> SubSeq(s, p, cEnd),
              sides |-> SubSeq(s, dPos + 1, sEnd),
              keep_high |-> grp(<<"k", "h">>),
              keep_low  |-> grp(<<"k", "l">>),
              drop_low  |-> grp(<<"d", "l">>),
              drop_high |-> grp(<<"d", "h">>),
              end |-> IF hasSfx THEN vEnd ELSE sEnd]
        ELSE [ok |-> FALSE, count |-> <<>>, sides |-> <<>>,
              keep_high |-> <<>>, keep_low |-> <<>>, drop_low |-> <<>>,
              drop_high |-> <<>>, end |-> p]

\* DICE_PATTERN.finditer from position p: the non-overlapping matches,
\* leftmost first
RECURSIVE finditer(_, _)
finditer(s, p) ==
    IF p > Len(s) THEN <<>>
    ELSE LET m == DICE_PATTERN(s, p)
         IN  IF m.ok THEN <<m>> \o finditer(s, m.end + 1)
             ELSE finditer(s, p + 1)

ParseError(msg) ==
    [ok |-> FALSE, error |-> msg, dice_sets |-> <<>>, modifier |-> 0]

\* ParseMatch without the test of the sides
ParseMatch_any_sides(m) ==
    LET count == IF m.count = <<>> THEN 1 ELSE int(m.count)
        sides == int(m.sides)
        mk(kh, dl) == [ok |-> TRUE, error |-> "",
                       set |-> [count |-> count, sides |-> sides,
                                keep_highest |-> kh, drop_lowest |-> dl]]
        bad(msg) == [ok |-> FALSE, error |-> msg,
                     set |-> [count |-> 0, sides |-> 0,
                              keep_highest |-> None, drop_lowest |-> None]]
    IN  IF count < 1 THEN bad("Invalid dice count")
        ELSE IF m.keep_high # <<>> THEN
               IF int(m.keep_high) > count THEN bad("Cannot keep")
               ELSE mk(int(m.keep_high), None)
        ELSE IF m.keep_low # <<>> THEN
               IF int(m.keep_low) < count
               THEN mk(None, count - int(m.keep_low))
               ELSE mk(None, None)
        ELSE IF m.drop_low # <<>> THEN
               IF int(m.drop_low) >= count THEN bad("Cannot drop")
               ELSE mk(None, int(m.drop_low))
        ELSE IF m.drop_high # <<>> THEN
               IF int(m.drop_high) < count
               THEN mk(count - int(m.drop_high), None)
               ELSE mk(None, None)
        ELSE mk(None, None)

\* ParseMatch with the kl and dh bounds off by one (<= for <)
ParseMatch_low_high_le(m) ==
    LET count == IF m.count = <<>> THEN 1 ELSE int(m.count)
        sides == int(m.sides)
        mk(kh, dl) == [ok |-> TRUE, error |-> "",
                       set |-> [count |-> count, sides |-> sides,
                                keep_highest |-> kh, drop_lowest |-> dl]]
        bad(msg) == [ok |-> FALSE, error |-> msg,
                     set |-> [count |-> 0, sides |-> 0,
                              keep_highest |-> None, drop_lowest |-> None]]
    IN  IF count < 1 THEN bad("Invalid dice count")
        ELSE IF sides < 1 THEN bad("Invalid dice sides")
        ELSE IF m.keep_high # <<>> THEN
               IF int(m.keep_high) > count THEN bad("Cannot keep")
               ELSE mk(int(m.keep_high), None)
        ELSE IF m.keep_low # <<>> THEN
               IF int(m.keep_low) <= count
               THEN mk(None, count - int(m.keep_low))
               ELSE mk(None, None)
        ELSE IF m.drop_low # <<>> THEN
               IF int(m.drop_low) >= count THEN bad("Cannot drop")
               ELSE mk(None, int(m.drop_low))
        ELSE IF m.drop_high # <<>> THEN
               IF int(m.drop_high) <= count
               THEN mk(count - int(m.drop_high), None)
               ELSE mk(None, None)
        ELSE mk(None, None)

\* ParseMatch with the drop bound off by one (> for >=)
ParseMatch_drop_all(m) ==
    LET count == IF m.count = <<>> THEN 1 ELSE int(m.count)
        sides == int(m.sides)
        mk(kh, dl) == [ok |-> TRUE, error |-> "",
                       set |-> [count |-> count, sides |-> sides,
                                keep_highest |-> kh, drop_lowest |-> dl]]
        bad(msg) == [ok |-> FALSE, error |-> msg,
                     set |-> [count |-> 0, sides |-> 0,
                              keep_highest |-> None, drop_lowest |-> None]]
    IN  IF count < 1 THEN bad("Invalid dice count")
        ELSE IF sides < 1 THEN bad("Invalid dice sides")
        ELSE IF m.keep_high # <<>> THEN
               IF int(m.keep_high) > count THEN bad("Cannot keep")
               ELSE mk(int(m.keep_high), None)
        ELSE IF m.keep_low # <<>> THEN
               IF int(m.keep_low) < count
               THEN mk(None, count - int(m.keep_low))
               ELSE mk(None, None)
        ELSE IF m.drop_low # <<>> THEN
               IF int(m.drop_low) > count THEN bad("Cannot drop")
               ELSE mk(None, int(m.drop_low))
        ELSE IF m.drop_high # <<>> THEN
               IF int(m.drop_high) < count
               THEN mk(count - int(m.drop_high), None)
               ELSE mk(None, None)
        ELSE mk(None, None)

\* the body of parse's loop for one match: the DiceSet, or the error raised
ParseMatch(m) ==
    LET count == IF m.count = <<>> THEN 1 ELSE int(m.count)
        sides == int(m.sides)
        mk(kh, dl) == [ok |-> TRUE, error |-> "",
                       set |-> [count |-> count, sides |-> sides,
                                keep_highest |-> kh, drop_lowest |-> dl]]
        bad(msg) == [ok |-> FALSE, error |-> msg,
                     set |-> [count |-> 0, sides |-> 0,
                              keep_highest |-> None, drop_lowest |-> None]]
    IN  IF count < 1 THEN bad("Invalid dice count")
        ELSE IF sides < 1 THEN bad("Invalid dice sides")
        ELSE IF m.keep_high # <<>> THEN
               IF int(m.keep_high) > count THEN bad("Cannot keep")
               ELSE mk(int(m.keep_high), None)
        ELSE IF m.keep_low # <<>> THEN
               IF int(m.keep_low) < count
               THEN mk(None, count - int(m.keep_low))
               ELSE mk(None, None)
        ELSE IF m.drop_low # <<>> THEN
               IF int(m.drop_low) >= count THEN bad("Cannot drop")
               ELSE mk(None, int(m.drop_low))
        ELSE IF m.drop_high # <<>> THEN
               IF int(m.drop_high) < count
               THEN mk(count - int(m.drop_high), None)
               ELSE mk(None, None)
        ELSE mk(None, None)

\* parse's loop over the matches, from match i on: stops at the first error
RECURSIVE ParseSets(_, _, _)
ParseSets(matches, i, acc) ==
    IF i > Len(matches) THEN [ok |-> TRUE, error |-> "", dice_sets |-> acc]
    ELSE LET r == ParseMatch(matches[i])
         IN  IF r.ok THEN ParseSets(matches, i + 1, Append(acc, r.set))
             ELSE [ok |-> FALSE, error |-> r.error, dice_sets |-> <<>>]

\* the text parse scans for dice tokens: cleaned, without the modifier
DiceText(expression) ==
    LET cleaned == lower(strip(expression))
        mstart  == MODIFIER_PATTERN(cleaned)
    IN  IF mstart = 0 THEN cleaned ELSE SubSeq(cleaned, 1, mstart - 1)

\* DiceParser.parse
parse(expression) ==
    IF expression = <<>> THEN ParseError("Empty dice expression")
    ELSE LET cleaned == lower(strip(expression))
             mstart  == MODIFIER_PATTERN(cleaned)
             modifier ==
                 IF mstart = 0 THEN 0
                 ELSE LET v == int(SubSeq(cleaned, mstart + 1, Len(cleaned)))
                      IN  IF cleaned[mstart] = "-" THEN 0 - v ELSE v
             sets == ParseSets(finditer(DiceText(expression), 1), 1, <<>>)
         IN  IF ~sets.ok THEN ParseError(sets.error)
             ELSE IF sets.dice_sets = <<>>
               THEN ParseError("No valid dice notation found")
             ELSE [ok |-> TRUE, error |-> "",
                   dice_sets |-> sets.dice_sets, modifier |-> modifier]

\* str.split(','): the parts between the commas
RECURSIVE split(_)
split(s) ==
    LET commas == {i \in 1..Len(s) : s[i] = ","}
    IN  IF commas = {} THEN <<s>>
        ELSE LET p == CHOOSE i \in commas : \A j \in commas : i <= j
             IN  <<SubSeq(s, 1, p - 1)>> \o split(SubSeq(s, p + 1, Len(s)))

MultipleError(msg) == [ok |-> FALSE, error |-> msg, expressions |-> <<>>]

\* ParseParts with the list overwritten by each part instead of appended to
RECURSIVE ParseParts_last_only(_, _, _)
ParseParts_last_only(parts, i, expressions) ==
    IF i > Len(parts)
    THEN IF expressions = <<>> THEN MultipleError("No valid expressions found")
         ELSE [ok |-> TRUE, error |-> "", expressions |-> expressions]
    ELSE LET part == strip(parts[i])
         IN  IF part = <<>>
               THEN ParseParts_last_only(parts, i + 1, expressions)
             ELSE IF ~parse(part).ok THEN MultipleError(parse(part).error)
             ELSE ParseParts_last_only(parts, i + 1, <<parse(part)>>)

\* ParseParts with a part that parse rejects skipped instead of raised
RECURSIVE ParseParts_skip_invalid(_, _, _)
ParseParts_skip_invalid(parts, i, expressions) ==
    IF i > Len(parts)
    THEN IF expressions = <<>> THEN MultipleError("No valid expressions found")
         ELSE [ok |-> TRUE, error |-> "", expressions |-> expressions]
    ELSE LET part == strip(parts[i])
         IN  IF part = <<>> \/ ~parse(part).ok
               THEN ParseParts_skip_invalid(parts, i + 1, expressions)
             ELSE ParseParts_skip_invalid(parts, i + 1,
                                          Append(expressions, parse(part)))

\* parse_multiple's loop over the parts, from part i on: an empty part is
\* skipped, the first part parse rejects ends the loop with its error
RECURSIVE ParseParts(_, _, _)
ParseParts(parts, i, expressions) ==
    IF i > Len(parts)
    THEN IF expressions = <<>> THEN MultipleError("No valid expressions found")
         ELSE [ok |-> TRUE, error |-> "", expressions |-> expressions]
    ELSE LET part == strip(parts[i])
         IN  IF part = <<>> THEN ParseParts(parts, i + 1, expressions)
             ELSE IF ~parse(part).ok THEN MultipleError(parse(part).error)
             ELSE ParseParts(parts, i + 1, Append(expressions, parse(part)))

\* DiceParser.parse_multiple
parse_multiple(expression) == ParseParts(split(expression), 1, <<>>)

\* ------------------------------------------------------------- roller.py
Range(s) == {s[i] : i \in 1..Len(s)}

RECURSIVE Sum(_)
Sum(s) == IF Len(s) = 0 THEN 0 ELSE Head(s) + Sum(Tail(s))

\* [rolls[i] for i in range(len(rolls)) if i in idx], in index order
RECURSIVE Pick(_, _, _)
Pick(rolls, idx, i) ==
    IF i > Len(rolls) THEN <<>>
    ELSE (IF i \in idx THEN <<rolls[i]>> ELSE <<>>) \o Pick(rolls, idx, i + 1)

\* sorted(rolls, reverse=True)
RECURSIVE sorted_reverse(_)
sorted_reverse(rolls) ==
    IF Len(rolls) = 0 THEN <<>>
    ELSE LET i == CHOOSE k \in 1..Len(rolls) :
                     \A j \in 1..Len(rolls) : rolls[j] <= rolls[k]
             rest == [j \in 1..(Len(rolls) - 1) |->
                        IF j < i THEN rolls[j] ELSE rolls[j + 1]]
         IN  <<rolls[i]>> \o sorted_reverse(rest)

\* reversed that leaves the list in descending order
reversed_identity(s) == s

\* sorted_rolls[::-1]
reversed(s) == [i \in 1..Len(s) |-> s[Len(s) + 1 - i]]

\* ClaimIndices without the test that a position is still unclaimed
RECURSIVE ClaimIndices_by_value(_, _, _, _, _)
ClaimIndices_by_value(rolls, wanted, n, i, claimed) ==
    IF i > n THEN claimed
    ELSE LET cand == {j \in 1..Len(rolls) : rolls[j] = wanted[i]}
         IN  IF cand = {}
               THEN ClaimIndices_by_value(rolls, wanted, n, i + 1, claimed)
             ELSE ClaimIndices_by_value(rolls, wanted, n, i + 1,
                    claimed \cup {CHOOSE j \in cand : \A k \in cand : j <= k})

\* ClaimIndices claiming the last unclaimed position of the wanted value
RECURSIVE ClaimIndices_latest(_, _, _, _, _)
ClaimIndices_latest(rolls, wanted, n, i, claimed) ==
    IF i > n THEN claimed
    ELSE LET cand == {j \in 1..Len(rolls) :
                        j \notin claimed /\ rolls[j] = wanted[i]}
         IN  IF cand = {}
               THEN ClaimIndices_latest(rolls, wanted, n, i + 1, claimed)
             ELSE ClaimIndices_latest(rolls, wanted, n, i + 1,
                    claimed \cup {CHOOSE j \in cand : \A k \in cand : j >= k})

\* the index-claiming loops of roll_dice_set: for i in range(n), claim the
\* first unclaimed position whose roll equals wanted[i]
RECURSIVE ClaimIndices(_, _, _, _, _)
ClaimIndices(rolls, wanted, n, i, claimed) ==
    IF i > n THEN claimed
    ELSE LET cand == {j \in 1..Len(rolls) :
                        j \notin claimed /\ rolls[j] = wanted[i]}
         IN  IF cand = {} THEN ClaimIndices(rolls, wanted, n, i + 1, claimed)
             ELSE ClaimIndices(rolls, wanted, n, i + 1,
                    claimed \cup {CHOOSE j \in cand : \A k \in cand : j <= k})

\* roll_dice_set with the other list filtered by value, not by position
roll_dice_set_value_filter(dice_set, rolls) ==
    LET sorted_rolls == sorted_reverse(rolls)
        kept_indices ==
            ClaimIndices(rolls, sorted_rolls, dice_set.keep_highest, 1, {})
        dropped_indices ==
            ClaimIndices(rolls, reversed(sorted_rolls),
                         dice_set.drop_lowest, 1, {})
        kept_of_keep == Pick(rolls, kept_indices, 1)
        dropped_of_drop == Pick(rolls, dropped_indices, 1)
        kept_rolls ==
            IF dice_set.keep_highest # None THEN kept_of_keep
            ELSE IF dice_set.drop_lowest # None
              THEN SelectSeq(rolls, LAMBDA r : r \notin Range(dropped_of_drop))
            ELSE rolls
        dropped_rolls ==
            IF dice_set.keep_highest # None
              THEN SelectSeq(rolls, LAMBDA r : r \notin Range(kept_of_keep))
            ELSE IF dice_set.drop_lowest # None THEN dropped_of_drop
            ELSE <<>>
    IN  [dice_notation |-> DiceSet_str(dice_set),
         rolls |-> rolls,
         kept_rolls |-> kept_rolls,
         dropped_rolls |-> dropped_rolls,
         subtotal |-> Sum(kept_rolls)]

\* roll_dice_set reporting the sorted list as the rolls
roll_dice_set_sorted(dice_set, rolls) ==
    LET sorted_rolls == sorted_reverse(rolls)
        all == 1..Len(rolls)
        kept_indices ==
            ClaimIndices(rolls, sorted_rolls, dice_set.keep_highest, 1, {})
        dropped_indices ==
            ClaimIndices(rolls, reversed(sorted_rolls),
                         dice_set.drop_lowest, 1, {})
        kept_rolls ==
            IF dice_set.keep_highest # None THEN Pick(rolls, kept_indices, 1)
            ELSE IF dice_set.drop_lowest # None
              THEN Pick(rolls, all \ dropped_indices, 1)
            ELSE rolls
        dropped_rolls ==
            IF dice_set.keep_highest # None
              THEN Pick(rolls, all \ kept_indices, 1)
            ELSE IF dice_set.drop_lowest # None
              THEN Pick(rolls, dropped_indices, 1)
            ELSE <<>>
    IN  [dice_notation |-> DiceSet_str(dice_set),
         rolls |-> sorted_rolls,
         kept_rolls |-> kept_rolls,
         dropped_rolls |-> dropped_rolls,
         subtotal |-> Sum(kept_rolls)]

\* DiceRoller.roll_dice_set, on the draws the random source returned
roll_dice_set(dice_set, rolls) ==
    LET sorted_rolls == sorted_reverse(rolls)
        all == 1..Len(rolls)
        kept_indices ==
            ClaimIndices(rolls, sorted_rolls, dice_set.keep_highest, 1, {})
        dropped_indices ==
            ClaimIndices(rolls, reversed(sorted_rolls),
                         dice_set.drop_lowest, 1, {})
        kept_rolls ==
            IF dice_set.keep_highest # None THEN Pick(rolls, kept_indices, 1)
            ELSE IF dice_set.drop_lowest # None
              THEN Pick(rolls, all \ dropped_indices, 1)
            ELSE rolls
        dropped_rolls ==
            IF dice_set.keep_highest # None
              THEN Pick(rolls, all \ kept_indices, 1)
            ELSE IF dice_set.drop_lowest # None
              THEN Pick(rolls, dropped_indices, 1)
            ELSE <<>>
    IN  [dice_notation |-> DiceSet_str(dice_set),
         rolls |-> rolls,
         kept_rolls |-> kept_rolls,
         dropped_rolls |-> dropped_rolls,
         subtotal |-> Sum(kept_rolls)]

\* Draws from a source that counts the faces from 0
Draws_from_zero(dice_set) == [1..dice_set.count -> 0..(dice_set.sides - 1)]

\* the draws of one dice set: count calls of random_func(sides)
Draws(dice_set) == [1..dice_set.count -> 1..dice_set.sides]

\* roll_with_advantage: the DiceSet it hands to roll
advantage_dice_set(sides) ==
    [count |-> 2, sides |-> sides, keep_highest |-> 1, drop_lowest |-> None]

\* DiceRoller.roll_with_advantage, on its two draws
roll_with_advantage(sides, rolls) ==
    LET dice_set == advantage_dice_set(sides)
        expression == [dice_sets |-> <<dice_set>>, modifier |-> 0]
        r == roll_dice_set(dice_set, rolls)
    IN  [expression |-> DiceExpression_str(expression),
         total |-> expression.modifier + r.subtotal,
         dice_results |-> <<r>>,
         modifier |-> expression.modifier]

Min2(a, b) == IF a <= b THEN a ELSE b
Max2(a, b) == IF a >= b THEN a ELSE b

\* disadvantage_dice_set without the reset of drop_lowest
disadvantage_dice_set_both(sides) ==
    LET built == [count |-> 2, sides |-> sides,
                  keep_highest |-> None, drop_lowest |-> 1]
    IN  [built EXCEPT !.keep_highest = 1]

\* roll_with_disadvantage: the DiceSet it hands to roll, built with
\* drop_lowest = 1 and then rewritten to keep_highest = 1, drop_lowest = None
disadvantage_dice_set(sides) ==
    LET built == [count |-> 2, sides |-> sides,
                  keep_highest |-> None, drop_lowest |-> 1]
        kept  == [built EXCEPT !.keep_highest = 1]
    IN  [kept EXCEPT !.drop_lowest = None]

\* roll_with_disadvantage without the rewrite of the result: what roll
\* returned for the keep-highest set
roll_with_disadvantage_unfixed(sides, rolls) ==
    LET dice_set == disadvantage_dice_set(sides)
        expression == [dice_sets |-> <<dice_set>>, modifier |-> 0]
        r == roll_dice_set(dice_set, rolls)
        dr == [r EXCEPT !.dice_notation = <<"2", "d", "2", "0", "d", "l", "1">>]
    IN  [expression |-> <<"2", "d", "2", "0", "d", "l", "1">>,
         total |-> dr.subtotal + expression.modifier,
         dice_results |-> <<dr>>,
         modifier |-> expression.modifier]

\* DiceRoller.roll_with_disadvantage, on its two draws
roll_with_disadvantage(sides, rolls) ==
    LET dice_set == disadvantage_dice_set(sides)
        expression == [dice_sets |-> <<dice_set>>, modifier |-> 0]
        r == roll_dice_set(dice_set, rolls)
        lowest  == Min2(r.rolls[1], r.rolls[2])
        highest == Max2(r.rolls[1], r.rolls[2])
        dr == [dice_notation |-> <<"2", "d", "2", "0", "d", "l", "1">>,
               rolls |-> r.rolls,
               kept_rolls |-> <<lowest>>,
               dropped_rolls |-> <<highest>>,
               subtotal |-> lowest]
    IN  [expression |-> <<"2", "d", "2", "0", "d", "l", "1">>,
         total |-> dr.subtotal + expression.modifier,
         dice_results |-> <<dr>>,
         modifier |-> expression.modifier]

\* total += result.subtotal over the results
RECURSIVE SumSubtotalsOf(_)
SumSubtotalsOf(drs) ==
    IF Len(drs) = 0 THEN 0
    ELSE Head(drs).subtotal + SumSubtotalsOf(Tail(drs))

\* the faces the random source shows in the runs of the roll command: the
\* lowest and the highest of the die
CliFaces(dice_set) == {1, dice_set.sides}

\* the draws of one set, and of all the sets of an expression set by set
CliDraws(dice_set) == [1..dice_set.count -> CliFaces(dice_set)]

RECURSIVE AllDraws(_)
AllDraws(dice_sets) ==
    IF Len(dice_sets) = 0 THEN {<<>>}
    ELSE {<<rolls>> \o rest : rolls \in CliDraws(Head(dice_sets)),
                              rest \in AllDraws(Tail(dice_sets))}

\* the calls of the random source one roll of the sets makes
RECURSIVE CountOfSets(_)
CountOfSets(dice_sets) ==
    IF Len(dice_sets) = 0 THEN 0
    ELSE Head(dice_sets).count + CountOfSets(Tail(dice_sets))

\* DiceRoller.roll, on the draws of its sets
roll(expression, draws) ==
    LET dice_results == [i \in 1..Len(expression.dice_sets) |->
                           roll_dice_set(expression.dice_sets[i], draws[i])]
    IN  [expression |-> DiceExpression_str(expression),
         total |-> expression.modifier + SumSubtotalsOf(dice_results),
         dice_results |-> dice_results,
         modifier |-> expression.modifier]

\* --------------------------------------------------------- dice_roller.py
\* stats_command: the kept-die count the statistics use for one set
stats_kept(dice_set) ==
    IF dice_set.keep_highest # None /\ dice_set.keep_highest # 0
      THEN dice_set.keep_highest
    ELSE IF dice_set.drop_lowest # None /\ dice_set.drop_lowest # 0
      THEN dice_set.count - dice_set.drop_lowest
    ELSE dice_set.count

RECURSIVE stats_min_roll(_)
stats_min_roll(dice_sets) ==
    IF Len(dice_sets) = 0 THEN 0
    ELSE stats_kept(Head(dice_sets)) + stats_min_roll(Tail(dice_sets))

RECURSIVE stats_max_roll(_)
stats_max_roll(dice_sets) ==
    IF Len(dice_sets) = 0 THEN 0
    ELSE stats_kept(Head(dice_sets)) * Head(dice_sets).sides
           + stats_max_roll(Tail(dice_sets))

\* stats_command: minimum and maximum of a parsed expression
stats_command(e) ==
    [minimum |-> stats_min_roll(e.dice_sets) + e.modifier,
     maximum |-> stats_max_roll(e.dice_sets) + e.modifier]

\* ------------------------------------------------------------ input texts
Kinds == {<<"k", "h">>, <<"k", "l">>, <<"d", "l">>, <<"d", "h">>}

CountTexts == {<<>>} \cup {str_nat(n) : n \in 0..MaxCount}

SidesTexts == {str_nat(n) : n \in 0..MaxSides}

SuffixTexts == {<<>>} \cup {k \o str_nat(n) : k \in Kinds, n \in 0..MaxCount}

TokenTexts ==
    {c \o <<"d">> \o sd \o x : c \in CountTexts, sd \in SidesTexts,
                               x \in SuffixTexts}

ModifierTexts ==
    {<<>>} \cup {<<sg>> \o str_nat(m) : sg \in {"+", "-"}, m \in 1..MaxMod}

\* the tokens that texts of several dice sets are made of
SmallTokens ==
    {c \o <<"d", "2">> \o x : c \in {<<>>, <<"2">>},
                              x \in {<<>>, <<"k", "h", "1">>,
                                     <<"d", "l", "1">>}}

RECURSIVE JoinedTokens(_)
JoinedTokens(k) ==
    IF k = 1 THEN SmallTokens
    ELSE {a \o <<"+">> \o b : a \in JoinedTokens(k - 1), b \in SmallTokens}

MultiSetTexts ==
    UNION {{t \o m : t \in JoinedTokens(k), m \in ModifierTexts} :
             k \in 2..MaxSets}

EdgeTexts ==
    {<<>>, <<" ">>, <<" ", "\t">>, <<"a", "b", "c">>, <<"+", "1">>,
     <<"2", "d", "2", "k", "h">>, <<" ", "2", "d", "2", " ">>,
     <<"3", "D", "2", "K", "H", "1">>}

Inputs ==
    {t \o m : t \in TokenTexts, m \in ModifierTexts}
      \cup MultiSetTexts \cup EdgeTexts

\* the parts that comma-separated texts are made of
PartTexts ==
    {<<>>, <<" ">>, <<"d", "2">>, <<" ", "2", "d", "3", "+", "1", " ">>,
     <<"3", "d", "2", "k", "h", "1">>, <<"0", "d", "2">>,
     <<"2", "d", "2", "d", "l", "2">>, <<"x">>}

RECURSIVE JoinedParts(_)
JoinedParts(k) ==
    IF k = 1 THEN PartTexts
    ELSE {a \o <<",">> \o b : a \in JoinedParts(k - 1), b \in PartTexts}

CommaTexts == UNION {JoinedParts(k) : k \in 1..MaxParts}

\* ----------------------------------------------------------- the program
\* --------------------------------------------------------- weather_cli.py
\* CacheManager._generate_key at time t: the f-string
\* "{location}_{units}_{data_type}_{timestamp}" with the time rounded down to
\* its 5-minute bucket
generate_key(location, units, data_type, t) ==
    LET timestamp == (t \div CacheSeconds) * CacheSeconds
    IN  location \o <<"_">> \o units \o <<"_">> \o data_type \o <<"_">>
          \o str_nat(timestamp)

\* json.dumps of a weather document, and json.loads of the text
json_dumps(data) == [json |-> data]
json_loads(stored) == stored.json

\* what get returns when it returns None
NoData == [temperature |-> None]

\* the single row of the table with the key, as a set (PRIMARY KEY)
Rows(table, cache_key) == {row \in table : row.cache_key = cache_key}

\* CacheManager.get at time t
cache_get(table, location, units, data_type, t) ==
    LET cache_key == generate_key(location, units, data_type, t)
        found == Rows(table, cache_key)
    IN  IF found = {} THEN NoData
        ELSE LET row == CHOOSE r \in found : TRUE
             IN  IF t - row.timestamp < CacheSeconds
                   THEN json_loads(row.data)
                 ELSE NoData

\* CacheManager.set at time t: INSERT OR REPLACE of the row of the key
cache_set(table, location, units, data_type, data, t) ==
    LET cache_key == generate_key(location, units, data_type, t)
    IN  (table \ Rows(table, cache_key))
          \cup {[cache_key |-> cache_key, data |-> json_dumps(data),
                 timestamp |-> t]}

\* CacheManager.clear_expired at time t: DELETE ... WHERE timestamp < t - 300
clear_expired(table, t) ==
    {row \in table : ~(row.timestamp < t - CacheSeconds)}

\* the locations, units and data types the cache is called with
Requests ==
    {[location |-> <<"n", "y", "_", "u", "s">>, units |-> <<"s", "i">>,
      data_type |-> <<"n", "o", "w">>],
     [location |-> <<"n", "y">>, units |-> <<"u", "s", "_", "s", "i">>,
      data_type |-> <<"n", "o", "w">>],
     [location |-> <<"n", "y">>, units |-> <<"s", "i">>,
      data_type |-> <<"n", "o", "w">>]}

\* the weather documents that are cached
CacheData == {[temperature |-> 1], [temperature |-> 2]}

\* ------------------------------------------------------------ airtable.py
\* wait_time with a linear backoff
wait_time_linear(retries) == RATE_LIMIT_DELAY * (retries + 1)

\* _request: wait_time = RATE_LIMIT_DELAY * (2 ** retries)
wait_time(retries) == RATE_LIMIT_DELAY * (2 ^ retries)

\* the status codes the server answers with, 429 aside
SuccessStatuses == {200, 204, 304}
ErrorStatuses == {400, 404, 422, 500, 503}

\* Response.raise_for_status raises HTTPError for these
RaisesForStatus(status) == 400 <= status /\ status < 600

\* the methods _request is called with
Methods == {"GET", "POST", "PATCH", "DELETE"}

VARIABLES
    op,            \* what is run: "roll", "stats", "advantage",
                   \* "disadvantage", "parse_multiple"
    text,          \* the notation handed to parse
    pc,            \* "start", "parsed", "rolling", "done", "failed"
    parsed,        \* what parse returned (ok = FALSE: the error it raised)
    dice_results,  \* roll: the DiceSetResults so far
    total,         \* roll: the running total
    result,        \* the RollResult returned
    statistics,    \* the minimum and maximum stats_command computed
    expressions,   \* what parse_multiple returned (ok = FALSE: its error)
    given,         \* the DiceSets handed to roll_dice_set so far, in order
    drawn          \* the values random_func returned so far, in order

dice_vars == <<op, text, pc, parsed, dice_results, total, result, statistics,
               expressions, given, drawn>>

VARIABLES
    now,           \* the clock time.time() reads, in seconds
    cache,         \* the rows of the table weather_cache
    sets_log,      \* the calls of CacheManager.set so far, in order
    got            \* the last call of CacheManager.get and what it returned

cache_vars == <<now, cache, sets_log, got>>

VARIABLES
    method,        \* the method _request was called with
    req_pc,        \* "loop", "returned", "exit" (sys.exit(1)), "raised"
    retries,       \* _request's local retries
    attempts,      \* the calls of session.request so far
    seen,          \* the status codes answered so far (0: no response)
    waited         \* the arguments of time.sleep so far, in order

request_vars == <<method, req_pc, retries, attempts, seen, waited>>

VARIABLES
    args,          \* roll_command's args: expression, advantage,
                   \* disadvantage, repeat, json
    cli_pc,        \* "start", "rolling", "done", "exit"
    cli_expressions, \* what parse_multiple returned to roll_command
    repetition,    \* the turns of the repeat loop that are finished
    position,      \* the expressions rolled in the current turn
    results,       \* roll_command's results list
    draws,         \* the calls of the random source so far
    stdout,        \* what roll_command printed to stdout
    stderr,        \* the message roll_command printed to stderr
    exit_status    \* the status of sys.exit, None while running; 0: returned

cli_vars == <<args, cli_pc, cli_expressions, repetition, position, results,
              draws, stdout, stderr, exit_status>>

\* the variables the dice roller, the cache and the Airtable client leave
\* alone
outside_dice == <<cache_vars, request_vars, cli_vars>>
outside_cache == <<dice_vars, request_vars, cli_vars>>
outside_request == <<dice_vars, cache_vars, cli_vars>>
outside_cli == <<dice_vars, cache_vars, request_vars>>

vars == <<dice_vars, cache_vars, request_vars, cli_vars>>

\* nothing printed to stdout
NoOutput == [format |-> "", rolls |-> <<>>, count |-> None]

\* the expressions the roll command is given
CliTexts ==
    {<<>>,
     <<"d", "2">>,
     <<"d", "2", ",", "2", "d", "2", "k", "h", "1">>,
     <<" ", "2", "d", "2", "d", "l", "1", " ", ",", ",", "d", "2", "-", "1">>,
     <<"x">>,
     <<"d", "2", ",", "x">>,
     <<"0", "d", "2", ",", "d", "2">>}

\* roll_command before its first statement
CliInit ==
    /\ args \in [expression : CliTexts, advantage : BOOLEAN,
                 disadvantage : BOOLEAN, repeat : -1..MaxRepeat,
                 json : BOOLEAN]
    /\ cli_pc = "start"
    /\ cli_expressions = <<>>
    /\ repetition = 0
    /\ position = 0
    /\ results = <<>>
    /\ draws = 0
    /\ stdout = NoOutput
    /\ stderr = ""
    /\ exit_status = None

\* the roll command is not run
CliIdle ==
    /\ CliInit
    /\ args = [expression |-> <<>>, advantage |-> FALSE,
               disadvantage |-> FALSE, repeat |-> 1, json |-> FALSE]

NoGet == [request |-> [location |-> <<>>, units |-> <<>>, data_type |-> <<>>],
          value |-> NoData, at |-> 0, calls |-> 0]

\* _request before its first turn of the loop
RequestInit ==
    /\ method \in Methods
    /\ req_pc = "loop"
    /\ retries = 0
    /\ attempts = 0
    /\ seen = <<>>
    /\ waited = <<>>

\* no request is made
RequestIdle ==
    /\ RequestInit
    /\ method = "GET"

\* the weather cache before its first call
CacheInit ==
    /\ now = 0
    /\ cache = {}
    /\ sets_log = <<>>
    /\ got = NoGet

NoResult ==
    [expression |-> <<>>, total |-> 0, dice_results |-> <<>>, modifier |-> 0]

NoStatistics == [minimum |-> 0, maximum |-> 0]

Init ==
    /\ \/ op \in {"roll", "stats"} /\ text \in Inputs
       \/ op \in {"advantage", "disadvantage"} /\ text = <<"d", "2", "0">>
       \/ op = "parse_multiple" /\ text \in CommaTexts
    /\ pc = "start"
    /\ parsed = ParseError("")
    /\ dice_results = <<>>
    /\ total = 0
    /\ result = NoResult
    /\ statistics = NoStatistics
    /\ expressions = MultipleError("")
    /\ given = <<>>
    /\ drawn = <<>>
    /\ CacheInit
    /\ RequestIdle
    /\ CliIdle

\* parser.parse(expression) returns
Parse ==
    /\ pc = "start"
    /\ op \in {"roll", "stats"}
    /\ parse(text).ok
    /\ parsed' = parse(text)
    /\ pc' = "parsed"
    /\ UNCHANGED <<op, text, dice_results, total, result, statistics,
                   expressions, given, drawn>>
    /\ UNCHANGED outside_dice

\* parser.parse(expression) raises ValueError
ParseFails ==
    /\ pc = "start"
    /\ op \in {"roll", "stats"}
    /\ ~parse(text).ok
    /\ parsed' = parse(text)
    /\ pc' = "failed"
    /\ UNCHANGED <<op, text, dice_results, total, result, statistics,
                   expressions, given, drawn>>
    /\ UNCHANGED outside_dice

\* RollBegin with the total started at 0, the modifier forgotten
RollBegin_no_modifier ==
    /\ pc = "parsed"
    /\ op = "roll"
    /\ dice_results' = <<>>
    /\ total' = 0
    /\ pc' = "rolling"
    /\ UNCHANGED <<op, text, parsed, result, statistics, expressions, given,
                   drawn>>
    /\ UNCHANGED outside_dice

\* roll: dice_results = [], total = expression.modifier
RollBegin ==
    /\ pc = "parsed"
    /\ op = "roll"
    /\ dice_results' = <<>>
    /\ total' = parsed.modifier
    /\ pc' = "rolling"
    /\ UNCHANGED <<op, text, parsed, result, statistics, expressions, given,
                   drawn>>
    /\ UNCHANGED outside_dice

\* roll: one turn of the loop over expression.dice_sets
RollDiceSet ==
    /\ pc = "rolling"
    /\ Len(dice_results) < Len(parsed.dice_sets)
    /\ LET dice_set == parsed.dice_sets[Len(dice_results) + 1]
       IN  \E rolls \in Draws(dice_set) :
             LET r == roll_dice_set(dice_set, rolls)
             IN  /\ dice_results' = Append(dice_results, r)
                 /\ total' = total + r.subtotal
                 /\ given' = Append(given, dice_set)
                 /\ drawn' = drawn \o rolls
    /\ UNCHANGED <<op, text, pc, parsed, result, statistics, expressions>>
    /\ UNCHANGED outside_dice

\* roll: the RollResult returned after the loop
RollReturn ==
    /\ pc = "rolling"
    /\ Len(dice_results) = Len(parsed.dice_sets)
    /\ result' = [expression |-> DiceExpression_str(parsed),
                  total |-> total,
                  dice_results |-> dice_results,
                  modifier |-> parsed.modifier]
    /\ pc' = "done"
    /\ UNCHANGED <<op, text, parsed, dice_results, total, statistics,
                   expressions, given, drawn>>
    /\ UNCHANGED outside_dice

\* stats_command on the parsed expression
StatsCommand ==
    /\ pc = "parsed"
    /\ op = "stats"
    /\ statistics' = stats_command(parsed)
    /\ pc' = "done"
    /\ UNCHANGED <<op, text, parsed, dice_results, total, result,
                   expressions, given, drawn>>
    /\ UNCHANGED outside_dice

AdvSides == (1..MaxSides) \cup {DefaultSides}

\* roller.roll_with_advantage(sides)
RollWithAdvantage ==
    /\ pc = "start"
    /\ op = "advantage"
    /\ \E sides \in AdvSides : \E rolls \in Draws(advantage_dice_set(sides)) :
         /\ result' = roll_with_advantage(sides, rolls)
         /\ given' = <<advantage_dice_set(sides)>>
         /\ drawn' = rolls
    /\ dice_results' = result'.dice_results
    /\ total' = result'.total
    /\ pc' = "done"
    /\ UNCHANGED <<op, text, parsed, statistics, expressions>>
    /\ UNCHANGED outside_dice

\* roller.roll_with_disadvantage(sides)
RollWithDisadvantage ==
    /\ pc = "start"
    /\ op = "disadvantage"
    /\ \E sides \in AdvSides :
         \E rolls \in Draws(disadvantage_dice_set(sides)) :
           /\ result' = roll_with_disadvantage(sides, rolls)
           /\ given' = <<disadvantage_dice_set(sides)>>
           /\ drawn' = rolls
    /\ dice_results' = result'.dice_results
    /\ total' = result'.total
    /\ pc' = "done"
    /\ UNCHANGED <<op, text, parsed, statistics, expressions>>
    /\ UNCHANGED outside_dice

\* parser.parse_multiple(expression) returns
ParseMultiple ==
    /\ pc = "start"
    /\ op = "parse_multiple"
    /\ parse_multiple(text).ok
    /\ expressions' = parse_multiple(text)
    /\ pc' = "parsed"
    /\ UNCHANGED <<op, text, parsed, dice_results, total, result, statistics,
                   given, drawn>>
    /\ UNCHANGED outside_dice

\* parser.parse_multiple(expression) raises ValueError
ParseMultipleFails ==
    /\ pc = "start"
    /\ op = "parse_multiple"
    /\ ~parse_multiple(text).ok
    /\ expressions' = parse_multiple(text)
    /\ pc' = "failed"
    /\ UNCHANGED <<op, text, parsed, dice_results, total, result, statistics,
                   given, drawn>>
    /\ UNCHANGED outside_dice

Next ==
    \/ Parse
    \/ ParseFails
    \/ RollBegin
    \/ RollDiceSet
    \/ RollReturn
    \/ StatsCommand
    \/ RollWithAdvantage
    \/ RollWithDisadvantage
    \/ ParseMultiple
    \/ ParseMultipleFails

Spec == Init /\ [][Next]_vars

TypeOK ==
    /\ op \in {"roll", "stats", "advantage", "disadvantage",
               "parse_multiple"}
    /\ pc \in {"start", "parsed", "rolling", "done", "failed"}

\* ------------------------------------------------- the weather cache runs
\* the dice roller before its first call, with nothing to do
DiceIdle ==
    /\ op = "roll"
    /\ text = <<>>
    /\ pc = "start"
    /\ parsed = ParseError("")
    /\ dice_results = <<>>
    /\ total = 0
    /\ result = NoResult
    /\ statistics = NoStatistics
    /\ expressions = MultipleError("")
    /\ given = <<>>
    /\ drawn = <<>>

InitCache ==
    /\ DiceIdle
    /\ CacheInit
    /\ RequestIdle
    /\ CliIdle

\* CacheManager.set(location, units, data_type, data); the clock reads of one
\* call are taken at the same second
CacheSet ==
    /\ Len(sets_log) < MaxCalls
    /\ \E request \in Requests, data \in CacheData :
         /\ cache' = cache_set(cache, request.location, request.units,
                               request.data_type, data, now)
         /\ sets_log' = Append(sets_log,
                          [request |-> request, data |-> data, at |-> now])
    /\ UNCHANGED <<now, got, outside_cache>>

\* CacheManager.get(location, units, data_type)
CacheGet ==
    /\ \E request \in Requests :
         got' = [request |-> request,
                 value |-> cache_get(cache, request.location, request.units,
                                     request.data_type, now),
                 at |-> now,
                 calls |-> Len(sets_log)]
    /\ UNCHANGED <<now, cache, sets_log, outside_cache>>

\* CacheManager.clear_expired()
ClearExpired ==
    /\ cache' = clear_expired(cache, now)
    /\ UNCHANGED <<now, sets_log, got, outside_cache>>

\* the clock advances
Tick ==
    /\ now < MaxTicks * ClockStep
    /\ now' = now + ClockStep
    /\ UNCHANGED <<cache, sets_log, got, outside_cache>>

NextCache ==
    \/ CacheSet
    \/ CacheGet
    \/ ClearExpired
    \/ Tick

SpecCache == InitCache /\ [][NextCache]_vars

\* ---------------------------------------------- the Airtable client runs
InitRequest ==
    /\ DiceIdle
    /\ CacheInit
    /\ RequestInit
    /\ CliIdle

\* one turn of the loop: session.request was answered 429 and retries are
\* left; sleep, count the retry, continue
RateLimitedRetry ==
    /\ req_pc = "loop" /\ retries <= max_retries
    /\ retries < max_retries
    /\ attempts' = attempts + 1
    /\ seen' = Append(seen, 429)
    /\ waited' = Append(waited, wait_time(retries))
    /\ retries' = retries + 1
    /\ UNCHANGED <<method, req_pc, outside_request>>

\* answered 429 with no retry left: raise_for_status raises HTTPError, the
\* handler prints it and calls sys.exit(1)
RateLimitedGiveUp ==
    /\ req_pc = "loop" /\ retries <= max_retries
    /\ ~(retries < max_retries)
    /\ RaisesForStatus(429)
    /\ attempts' = attempts + 1
    /\ seen' = Append(seen, 429)
    /\ req_pc' = "exit"
    /\ UNCHANGED <<method, retries, waited, outside_request>>

\* answered 401: sys.exit(1)
AuthenticationFailed ==
    /\ req_pc = "loop" /\ retries <= max_retries
    /\ attempts' = attempts + 1
    /\ seen' = Append(seen, 401)
    /\ req_pc' = "exit"
    /\ UNCHANGED <<method, retries, waited, outside_request>>

\* answered 403: sys.exit(1) after the message; a body that is not JSON or
\* whose 'error' is not an object makes response.json() or .get raise, which
\* the handler catches (exit) or not (the exception leaves _request)
PermissionDenied ==
    /\ req_pc = "loop" /\ retries <= max_retries
    /\ attempts' = attempts + 1
    /\ seen' = Append(seen, 403)
    /\ req_pc' \in {"exit", "raised"}
    /\ UNCHANGED <<method, retries, waited, outside_request>>

\* answered another error status: raise_for_status raises, sys.exit(1)
ErrorStatus ==
    /\ req_pc = "loop" /\ retries <= max_retries
    /\ \E status \in ErrorStatuses :
         /\ RaisesForStatus(status)
         /\ seen' = Append(seen, status)
    /\ attempts' = attempts + 1
    /\ req_pc' = "exit"
    /\ UNCHANGED <<method, retries, waited, outside_request>>

\* session.request raised a RequestException (no response): sys.exit(1)
ConnectionFailed ==
    /\ req_pc = "loop" /\ retries <= max_retries
    /\ attempts' = attempts + 1
    /\ seen' = Append(seen, 0)
    /\ req_pc' = "exit"
    /\ UNCHANGED <<method, retries, waited, outside_request>>

\* answered a status raise_for_status lets pass: return response
RequestReturns ==
    /\ req_pc = "loop" /\ retries <= max_retries
    /\ \E status \in SuccessStatuses :
         /\ ~RaisesForStatus(status)
         /\ seen' = Append(seen, status)
    /\ attempts' = attempts + 1
    /\ req_pc' = "returned"
    /\ UNCHANGED <<method, retries, waited, outside_request>>

NextRequest ==
    \/ RateLimitedRetry
    \/ RateLimitedGiveUp
    \/ AuthenticationFailed
    \/ PermissionDenied
    \/ ErrorStatus
    \/ ConnectionFailed
    \/ RequestReturns

SpecRequest == InitRequest /\ [][NextRequest]_vars

\* --------------------------------------------------- the roll command runs
InitCli ==
    /\ DiceIdle
    /\ CacheInit
    /\ RequestIdle
    /\ CliInit

\* CliBothFlags taking the advantage flag first
CliBothFlags_advantage_first ==
    /\ cli_pc = "start"
    /\ args.advantage /\ args.disadvantage
    /\ cli_pc' = "rolling"
    /\ UNCHANGED <<args, cli_expressions, repetition, position, results,
                   draws, stdout, stderr, exit_status, outside_cli>>

\* roll_command: both --advantage and --disadvantage: message, sys.exit(1)
CliBothFlags ==
    /\ cli_pc = "start"
    /\ args.advantage /\ args.disadvantage
    /\ stderr' = "Error: Cannot use both advantage and disadvantage"
    /\ exit_status' = 1
    /\ cli_pc' = "exit"
    /\ UNCHANGED <<args, cli_expressions, repetition, position, results,
                   draws, stdout, outside_cli>>

\* roll_command with one of the flags: results = [], no expression is parsed
CliFlagBegin ==
    /\ cli_pc = "start"
    /\ args.advantage # args.disadvantage
    /\ cli_pc' = "rolling"
    /\ UNCHANGED <<args, cli_expressions, repetition, position, results,
                   draws, stdout, stderr, exit_status, outside_cli>>

\* roll_command without a flag: parse_multiple returns
CliParse ==
    /\ cli_pc = "start"
    /\ ~args.advantage /\ ~args.disadvantage
    /\ parse_multiple(args.expression).ok
    /\ cli_expressions' = parse_multiple(args.expression).expressions
    /\ cli_pc' = "rolling"
    /\ UNCHANGED <<args, repetition, position, results, draws, stdout,
                   stderr, exit_status, outside_cli>>

\* roll_command without a flag: parse_multiple raises ValueError, the
\* handler prints "Error: ..." and calls sys.exit(1)
CliParseFails ==
    /\ cli_pc = "start"
    /\ ~args.advantage /\ ~args.disadvantage
    /\ ~parse_multiple(args.expression).ok
    /\ stderr' = parse_multiple(args.expression).error
    /\ exit_status' = 1
    /\ cli_pc' = "exit"
    /\ UNCHANGED <<args, cli_expressions, repetition, position, results,
                   draws, stdout, outside_cli>>

\* one turn of 'for _ in range(args.repeat)' with --advantage
CliRollAdvantage ==
    /\ cli_pc = "rolling"
    /\ args.advantage
    /\ repetition < args.repeat
    /\ \E rolls \in CliDraws(advantage_dice_set(DefaultSides)) :
         results' = Append(results, roll_with_advantage(DefaultSides, rolls))
    /\ draws' = draws + 2
    /\ repetition' = repetition + 1
    /\ UNCHANGED <<args, cli_pc, cli_expressions, position, stdout, stderr,
                   exit_status, outside_cli>>

\* one turn of 'for _ in range(args.repeat)' with --disadvantage
CliRollDisadvantage ==
    /\ cli_pc = "rolling"
    /\ ~args.advantage /\ args.disadvantage
    /\ repetition < args.repeat
    /\ \E rolls \in CliDraws(disadvantage_dice_set(DefaultSides)) :
         results' = Append(results,
                           roll_with_disadvantage(DefaultSides, rolls))
    /\ draws' = draws + 2
    /\ repetition' = repetition + 1
    /\ UNCHANGED <<args, cli_pc, cli_expressions, position, stdout, stderr,
                   exit_status, outside_cli>>

\* CliRoll ending the repeat loop after its first turn
CliRoll_once ==
    /\ cli_pc = "rolling"
    /\ ~args.advantage /\ ~args.disadvantage
    /\ repetition < args.repeat
    /\ position < Len(cli_expressions)
    /\ LET expr == cli_expressions[position + 1]
       IN  \E rolled \in AllDraws(expr.dice_sets) :
             /\ results' = Append(results, roll(expr, rolled))
             /\ draws' = draws + CountOfSets(expr.dice_sets)
    /\ IF position + 1 = Len(cli_expressions)
         THEN repetition' = args.repeat /\ position' = 0
       ELSE repetition' = repetition /\ position' = position + 1
    /\ UNCHANGED <<args, cli_pc, cli_expressions, stdout, stderr, exit_status,
                   outside_cli>>

\* CliRoll rewriting the rule of the sets it rolled, as roll_with_disadvantage
\* rewrites its own set
CliRoll_rewriting ==
    /\ cli_pc = "rolling"
    /\ ~args.advantage /\ ~args.disadvantage
    /\ repetition < args.repeat
    /\ position < Len(cli_expressions)
    /\ LET expr == cli_expressions[position + 1]
       IN  /\ \E rolled \in AllDraws(expr.dice_sets) :
                /\ results' = Append(results, roll(expr, rolled))
                /\ draws' = draws + CountOfSets(expr.dice_sets)
           /\ cli_expressions' =
                [cli_expressions EXCEPT ![position + 1].dice_sets =
                   [i \in 1..Len(expr.dice_sets) |->
                      [expr.dice_sets[i] EXCEPT !.keep_highest = 1,
                                                !.drop_lowest = None]]]
    /\ IF position + 1 = Len(cli_expressions)
         THEN repetition' = repetition + 1 /\ position' = 0
       ELSE repetition' = repetition /\ position' = position + 1
    /\ UNCHANGED <<args, cli_pc, stdout, stderr, exit_status, outside_cli>>

\* one turn of 'for expr in expressions' inside 'for _ in range(repeat)':
\* result = roller.roll(expr); results.append(result)
CliRoll ==
    /\ cli_pc = "rolling"
    /\ ~args.advantage /\ ~args.disadvantage
    /\ repetition < args.repeat
    /\ position < Len(cli_expressions)
    /\ LET expr == cli_expressions[position + 1]
       IN  \E rolled \in AllDraws(expr.dice_sets) :
             /\ results' = Append(results, roll(expr, rolled))
             /\ draws' = draws + CountOfSets(expr.dice_sets)
    /\ IF position + 1 = Len(cli_expressions)
         THEN repetition' = repetition + 1 /\ position' = 0
       ELSE repetition' = repetition /\ position' = position + 1
    /\ UNCHANGED <<args, cli_pc, cli_expressions, stdout, stderr, exit_status,
                   outside_cli>>

\* the loops are over: the results are printed, as JSON with their count or
\* one after the other, and roll_command returns
CliOutput ==
    /\ cli_pc = "rolling"
    /\ ~(repetition < args.repeat)
    /\ stdout' = IF args.json
                   THEN [format |-> "json", rolls |-> results,
                         count |-> Len(results)]
                 ELSE [format |-> "text", rolls |-> results, count |-> None]
    /\ exit_status' = 0
    /\ cli_pc' = "done"
    /\ UNCHANGED <<args, cli_expressions, repetition, position, results,
                   draws, stderr, outside_cli>>

NextCli ==
    \/ CliBothFlags
    \/ CliFlagBegin
    \/ CliParse
    \/ CliParseFails
    \/ CliRollAdvantage
    \/ CliRollDisadvantage
    \/ CliRoll
    \/ CliOutput

SpecCli == InitCli /\ [][NextCli]_vars

\* ------------------------------------------------------------- properties
\* number of occurrences of v in s
Occ(s, v) == Cardinality({i \in 1..Len(s) : s[i] = v})

\* kept and dropped together hold exactly the rolls, as multisets
IsPartition(dr) ==
    /\ Len(dr.kept_rolls) + Len(dr.dropped_rolls) = Len(dr.rolls)
    /\ \A v \in Range(dr.rolls) \cup Range(dr.kept_rolls)
                  \cup Range(dr.dropped_rolls) :
         Occ(dr.kept_rolls, v) + Occ(dr.dropped_rolls, v) = Occ(dr.rolls, v)

\* no dropped roll is higher than a kept roll
KeptAreHighest(dr) ==
    \A a \in Range(dr.kept_rolls), b \in Range(dr.dropped_rolls) : a >= b

\* no dropped roll is lower than a kept roll
KeptAreLowest(dr) ==
    \A a \in Range(dr.kept_rolls), b \in Range(dr.dropped_rolls) : a <= b

\* the dice tokens parse finds in the text
Matches == finditer(DiceText(text), 1)

\* the count the roller was given for the i-th result
RolledCount(i) == IF op = "roll" THEN parsed.dice_sets[i].count ELSE 2

\* C1: in every DiceSetResult that roll_dice_set, roll, roll_with_advantage
\* or roll_with_disadvantage produces, len(kept_rolls) + len(dropped_rolls)
\* = len(rolls) = count, and kept_rolls and dropped_rolls together are the
\* multiset of rolls.
C1_Partition ==
    /\ \A i \in 1..Len(dice_results) :
         /\ IsPartition(dice_results[i])
         /\ Len(dice_results[i].rolls) = RolledCount(i)
    /\ \A i \in 1..Len(result.dice_results) :
         /\ IsPartition(result.dice_results[i])
         /\ Len(result.dice_results[i].rolls) = RolledCount(i)

\* a returned roll of three dice that kept some and dropped some, a kept die
\* and a dropped die showing the same value
C1_Witness ==
    /\ pc = "done" /\ op = "roll"
    /\ \E i \in 1..Len(result.dice_results) :
         LET dr == result.dice_results[i]
         IN  /\ Len(dr.rolls) = 3
             /\ Range(dr.kept_rolls) \cap Range(dr.dropped_rolls) # {}

\* C2: a set with keep_highest = n yields exactly n kept rolls, the n largest
\* values rolled; a set with drop_lowest = n yields exactly n dropped rolls,
\* the n smallest values rolled; a set with no rule keeps all its rolls in
\* order and drops none; subtotal is the sum of the kept rolls.
C2_Selection ==
    op = "roll" =>
      \A i \in 1..Len(dice_results) :
        LET ds == parsed.dice_sets[i]
            dr == dice_results[i]
        IN  /\ dr.subtotal = Sum(dr.kept_rolls)
            /\ IsPartition(dr)
            /\ ds.keep_highest # None =>
                 Len(dr.kept_rolls) = ds.keep_highest /\ KeptAreHighest(dr)
            /\ (ds.keep_highest = None /\ ds.drop_lowest # None) =>
                 Len(dr.dropped_rolls) = ds.drop_lowest /\ KeptAreHighest(dr)
            /\ (ds.keep_highest = None /\ ds.drop_lowest = None) =>
                 dr.kept_rolls = dr.rolls /\ dr.dropped_rolls = <<>>

\* keep-highest 2 of three dice whose two highest draws are equal
C2_Witness ==
    /\ op = "roll"
    /\ \E i \in 1..Len(dice_results) :
         /\ parsed.dice_sets[i].keep_highest = 2
         /\ dice_results[i].rolls = <<2, 1, 2>>
         /\ dice_results[i].kept_rolls = <<2, 2>>

RECURSIVE SumSubtotals(_)
SumSubtotals(drs) ==
    IF Len(drs) = 0 THEN 0 ELSE Head(drs).subtotal + SumSubtotals(Tail(drs))

\* C3: every RollResult returned by roll, roll_with_advantage or
\* roll_with_disadvantage has total = sum of the subtotals + modifier, each
\* subtotal = sum(kept_rolls), and modifier = the expression's modifier.
C3_TotalConsistency ==
    (pc = "done" /\ op # "stats") =>
      /\ result.total = SumSubtotals(result.dice_results) + result.modifier
      /\ \A i \in 1..Len(result.dice_results) :
           result.dice_results[i].subtotal
             = Sum(result.dice_results[i].kept_rolls)
      /\ result.modifier = (IF op = "roll" THEN parsed.modifier ELSE 0)
      /\ Len(result.dice_results)
           = (IF op = "roll" THEN Len(parsed.dice_sets) ELSE 1)

\* a returned roll of two dice sets with a non-zero modifier
C3_Witness ==
    /\ pc = "done" /\ op = "roll"
    /\ Len(result.dice_results) = 2
    /\ result.modifier # 0
    /\ result.total # SumSubtotals(result.dice_results)

\* C4: every DiceSet of a successfully parsed expression has count >= 1,
\* sides >= 1, keep_highest <= count when a keep rule is set and
\* drop_lowest < count when a drop rule is set.
C4_ValidatedBounds ==
    parsed.ok =>
      \A i \in 1..Len(parsed.dice_sets) :
        LET ds == parsed.dice_sets[i]
        IN  /\ ds.count >= 1
            /\ ds.sides >= 1
            /\ ds.keep_highest # None => ds.keep_highest <= ds.count
            /\ ds.drop_lowest # None => ds.drop_lowest < ds.count

\* C5: rolling the set parsed from <c>d<s>kl<n> (n < c) keeps exactly the n
\* lowest rolls, and rolling the set parsed from <c>d<s>dh<n> (n < c) drops
\* exactly the n highest rolls.
C5_KeepLowDropHigh ==
    (op = "roll" /\ parsed.ok) =>
      \A i \in 1..Len(dice_results) :
        LET m  == Matches[i]
            dr == dice_results[i]
        IN  /\ (m.keep_low # <<>> /\ int(m.keep_low) < Len(dr.rolls)) =>
                 Len(dr.kept_rolls) = int(m.keep_low) /\ KeptAreLowest(dr)
            /\ (m.drop_high # <<>> /\ int(m.drop_high) < Len(dr.rolls)) =>
                 Len(dr.dropped_rolls) = int(m.drop_high)
                   /\ KeptAreLowest(dr)

\* a dice token the bounds forbid: count < 1, sides < 1, kh above the count,
\* dl at or above the count
BadToken(m) ==
    LET count == IF m.count = <<>> THEN 1 ELSE int(m.count)
    IN  \/ count < 1
        \/ int(m.sides) < 1
        \/ m.keep_high # <<>> /\ int(m.keep_high) > count
        \/ m.drop_low # <<>> /\ int(m.drop_low) >= count

BoundErrors ==
    {"Invalid dice count", "Invalid dice sides", "Cannot keep", "Cannot drop"}

\* C6: parse fails with one of the bound errors and returns no expression
\* whenever some dice token of the text has count < 1, sides < 1, a kh value
\* above its count or a dl value at or above its count.
C6_BoundRejection ==
    (op \in {"roll", "stats"} /\ pc \in {"parsed", "failed"}
       /\ LET ms == Matches IN \E i \in 1..Len(ms) : BadToken(ms[i])) =>
      /\ pc = "failed"
      /\ ~parsed.ok
      /\ parsed.error \in BoundErrors
      /\ parsed.dice_sets = <<>>

\* parse has rejected a text whose token drops as many dice as it rolls
C6_Witness ==
    /\ pc = "failed"
    /\ parsed.error = "Cannot drop"
    /\ \E i \in 1..Len(Matches) :
         /\ Matches[i].drop_low # <<>>
         /\ Matches[i].count # <<>>
         /\ int(Matches[i].drop_low) = int(Matches[i].count)
         /\ int(Matches[i].sides) >= 1

\* C7: parse fails with the empty-expression error for every text that is
\* empty or only whitespace.
C7_EmptyInput ==
    (op \in {"roll", "stats"} /\ pc # "start" /\ strip(text) = <<>>) =>
      pc = "failed" /\ parsed.error = "Empty dice expression"

\* the text writes only the canonical forms: no suffix, kh<n>, dl<n>
CanonicalText ==
    \A i \in 1..Len(Matches) :
      Matches[i].keep_low = <<>> /\ Matches[i].drop_high = <<>>

\* two dice sets roll alike: same count and sides, and the same kept rolls,
\* dropped rolls and subtotal on every sequence of draws
SameBehaviour(a, b) ==
    /\ a.count = b.count
    /\ a.sides = b.sides
    /\ \A rolls \in Draws(a) :
         LET ra == roll_dice_set(a, rolls)
             rb == roll_dice_set(b, rolls)
         IN  /\ ra.kept_rolls = rb.kept_rolls
             /\ ra.dropped_rolls = rb.dropped_rolls
             /\ ra.subtotal = rb.subtotal

\* C8: for an accepted text in canonical forms, str(parse(s)) is accepted
\* by parse and gives an expression with the same sets (count, sides and
\* behaviour of the rule on every draw sequence) and the same modifier.
C8_RoundTrip ==
    (pc = "done" /\ op = "roll" /\ CanonicalText) =>
      LET again == parse(result.expression)
      IN  /\ again.ok
          /\ Len(again.dice_sets) = Len(parsed.dice_sets)
          /\ \A i \in 1..Len(parsed.dice_sets) :
               SameBehaviour(parsed.dice_sets[i], again.dice_sets[i])
          /\ again.modifier = parsed.modifier

\* the kept-die count of a set: keep_highest if a keep rule is set,
\* count - drop_lowest if a drop rule is set, count otherwise
KeptDieCount(ds) ==
    IF ds.keep_highest # None THEN ds.keep_highest
    ELSE IF ds.drop_lowest # None THEN ds.count - ds.drop_lowest
    ELSE ds.count

RECURSIVE SumKept(_, _)
SumKept(sets, withSides) ==
    IF Len(sets) = 0 THEN 0
    ELSE KeptDieCount(Head(sets)) * (IF withSides THEN Head(sets).sides ELSE 1)
           + SumKept(Tail(sets), withSides)

\* C9: stats reports minimum = sum of the kept-die counts + modifier and
\* maximum = sum of sides * kept-die count + modifier, and draws nothing.
C9_StatsFormula ==
    (pc = "done" /\ op = "stats") =>
      /\ statistics.minimum = SumKept(parsed.dice_sets, FALSE) + parsed.modifier
      /\ statistics.maximum = SumKept(parsed.dice_sets, TRUE) + parsed.modifier
      /\ dice_results = <<>>

\* every die of every set shows v (v = 0: shows its number of sides)
AllDrawsAre(v) ==
    \A i \in 1..Len(result.dice_results) :
      \A j \in 1..Len(result.dice_results[i].rolls) :
        result.dice_results[i].rolls[j]
          = (IF v = 0 THEN parsed.dice_sets[i].sides ELSE v)

\* C10: the total of every roll of an accepted expression lies between the
\* minimum and maximum stats reports for it; all draws 1 give the minimum
\* and all draws equal to sides give the maximum.
C10_StatsBoundsExact ==
    (pc = "done" /\ op = "roll") =>
      LET st == stats_command(parsed)
      IN  /\ st.minimum <= result.total
          /\ result.total <= st.maximum
          /\ AllDrawsAre(1) => result.total = st.minimum
          /\ AllDrawsAre(0) => result.total = st.maximum

\* C11: on two draws (a, b) in that order, roll_with_advantage returns
\* rolls [a, b], kept_rolls [max(a, b)], dropped_rolls [min(a, b)] and total
\* max(a, b); roll_with_disadvantage returns rolls [a, b], kept_rolls
\* [min(a, b)], dropped_rolls [max(a, b)] and total min(a, b); each makes
\* exactly two draws.
C11_Complementarity ==
    (pc = "done" /\ op \in {"advantage", "disadvantage"}) =>
      /\ Len(drawn) = 2
      /\ Len(result.dice_results) = 1
      /\ LET a  == drawn[1]
             b  == drawn[2]
             hi == IF a >= b THEN a ELSE b
             lo == IF a >= b THEN b ELSE a
             dr == result.dice_results[1]
         IN  /\ dr.rolls = <<a, b>>
             /\ op = "advantage" =>
                  /\ dr.kept_rolls = <<hi>>
                  /\ dr.dropped_rolls = <<lo>>
                  /\ result.total = hi
             /\ op = "disadvantage" =>
                  /\ dr.kept_rolls = <<lo>>
                  /\ dr.dropped_rolls = <<hi>>
                  /\ result.total = lo

\* a disadvantage roll of two d20 that drew 8 and then 15
C11_Witness ==
    /\ pc = "done" /\ op = "disadvantage"
    /\ drawn = <<8, 15>>
    /\ result.total = 8

\* C12: for every sides passed, the result of roll_with_advantage carries
\* expression and dice_notation 2d{sides}kh1, the result of
\* roll_with_disadvantage carries 2d{sides}dl1, and the rolls come from dice
\* of that many sides.
C12_Notation ==
    (pc = "done" /\ op \in {"advantage", "disadvantage"}) =>
      LET sides == given[1].sides
          expected == <<"2", "d">> \o str_nat(sides)
                        \o (IF op = "advantage" THEN <<"k", "h", "1">>
                            ELSE <<"d", "l", "1">>)
          dr == result.dice_results[1]
      IN  /\ result.expression = expected
          /\ dr.dice_notation = expected
          /\ \A j \in 1..Len(dr.rolls) : dr.rolls[j] \in 1..sides

\* C13: roll_with_disadvantage(sides) returns what the general roll returns
\* for the single set DiceSet(2, sides, drop_lowest = 1) with modifier 0 on
\* the same two draws, and the notation it reports, parsed and rolled on the
\* same draws, gives the same rolls, kept, dropped, subtotal and total.
C13_DisadvantageIsDropLowest ==
    (pc = "done" /\ op = "disadvantage") =>
      LET ds == [count |-> 2, sides |-> given[1].sides,
                 keep_highest |-> None, drop_lowest |-> 1]
          g  == roll_dice_set(ds, drawn)
          e  == parse(result.expression)
          dr == result.dice_results[1]
          same(x) == /\ dr.rolls = x.rolls
                     /\ dr.kept_rolls = x.kept_rolls
                     /\ dr.dropped_rolls = x.dropped_rolls
                     /\ dr.subtotal = x.subtotal
                     /\ result.total = x.subtotal
      IN  /\ same(g)
          /\ e.ok
          /\ Len(e.dice_sets) = 1
          /\ same(roll_dice_set(e.dice_sets[1], drawn))

\* the positions of the commas of the text
CommaPositions == {i \in 1..Len(text) : text[i] = ","}

\* the position of the k-th comma of the text
CommaAt(k) ==
    CHOOSE p \in CommaPositions :
      Cardinality({q \in CommaPositions : q < p}) = k - 1

\* the k-th comma-separated part of the text
PartOfText(k) ==
    SubSeq(text,
           IF k = 1 THEN 1 ELSE CommaAt(k - 1) + 1,
           IF k = Cardinality(CommaPositions) + 1 THEN Len(text)
           ELSE CommaAt(k) - 1)

\* the parts of the text that are not empty after trimming, left to right
NonEmptyParts ==
    SelectSeq([k \in 1..(Cardinality(CommaPositions) + 1) |-> PartOfText(k)],
              LAMBDA part : \E i \in 1..Len(part) : part[i] \notin Whitespace)

\* C14: when parse_multiple succeeds it returns one expression per part of
\* the text that is not empty after trimming, in the same order, each equal
\* to parse of that part; empty parts are skipped.
C14_ParseMultipleShape ==
    (op = "parse_multiple" /\ pc = "parsed") =>
      /\ expressions.ok
      /\ Len(expressions.expressions) = Len(NonEmptyParts)
      /\ \A i \in 1..Len(NonEmptyParts) :
           /\ parse(NonEmptyParts[i]).ok
           /\ expressions.expressions[i] = parse(NonEmptyParts[i])

\* a text of three parts, one of them empty, parsed to two different
\* expressions
C14_Witness ==
    /\ op = "parse_multiple" /\ pc = "parsed"
    /\ Cardinality(CommaPositions) = 2
    /\ Len(expressions.expressions) = 2
    /\ expressions.expressions[1] # expressions.expressions[2]

\* C15: if a non-empty part fails to parse, parse_multiple fails with the
\* error of the first such part and returns no list; it also fails when the
\* text has no non-empty part.
C15_AllOrNothing ==
    (op = "parse_multiple" /\ pc # "start") =>
      LET bad == {i \in 1..Len(NonEmptyParts) : ~parse(NonEmptyParts[i]).ok}
      IN  /\ bad # {} =>
               /\ pc = "failed"
               /\ ~expressions.ok
               /\ expressions.expressions = <<>>
               /\ expressions.error
                    = parse(NonEmptyParts[CHOOSE i \in bad :
                                            \A j \in bad : i <= j]).error
          /\ NonEmptyParts = <<>> =>
               /\ pc = "failed"
               /\ ~expressions.ok
               /\ expressions.expressions = <<>>
               /\ expressions.error = "No valid expressions found"

\* parse_multiple failed on a text whose first part is valid, whose second
\* part drops all its dice and whose third part has no dice notation
C15_Witness ==
    /\ op = "parse_multiple" /\ pc = "failed"
    /\ Len(NonEmptyParts) = 3
    /\ parse(NonEmptyParts[1]).ok
    /\ parse(NonEmptyParts[2]).error = "Cannot drop"
    /\ parse(NonEmptyParts[3]).error = "No valid dice notation found"
    /\ expressions.error = "Cannot drop"

\* upper case of one character of the notation
UpperChar(c) ==
    CASE c = "d" -> "D"
      [] c = "k" -> "K"
      [] c = "h" -> "H"
      [] c = "l" -> "L"
      [] OTHER   -> c

\* the texts obtained from the text by upper-casing one stretch of it: a
\* single letter, a suffix keyword, a token, several tokens or the whole
UpperCasings ==
    {[i \in 1..Len(text) |->
        IF a <= i /\ i <= b THEN UpperChar(text[i]) ELSE text[i]] :
       a \in 1..Len(text), b \in 1..Len(text)}

\* C16: parse of a text and parse of the text with a stretch of its letters
\* upper-cased both fail or both succeed with the same sets, rules, modifier
\* and canonical string.
C16_CaseInsensitive ==
    (op \in {"roll", "stats"} /\ pc \in {"parsed", "failed"}) =>
      \A u \in UpperCasings :
        LET other == parse(u)
        IN  /\ other.ok = parsed.ok
            /\ other.dice_sets = parsed.dice_sets
            /\ other.modifier = parsed.modifier
            /\ parsed.ok =>
                 DiceExpression_str(other) = DiceExpression_str(parsed)

\* a text written in upper case was parsed to a keep-highest set
C16_Witness ==
    /\ pc = "parsed"
    /\ \E i \in 1..Len(text) : text[i] = "K"
    /\ \E i \in 1..Len(text) : text[i] = "D"
    /\ parsed.dice_sets[1].keep_highest = 1
    /\ parsed.dice_sets[1].count = 3

\* the cleaned text: trimmed and lower-cased
Cleaned == lower(strip(text))

\* where the signed integer that ends the cleaned text starts (0: none)
SignedSuffixStart ==
    LET c == Cleaned
        starts == {p \in 1..(Len(c) - 1) :
                     /\ c[p] \in {"+", "-"}
                     /\ \A q \in (p + 1)..Len(c) : IsDigit(c[q])}
    IN  IF starts = {} THEN 0 ELSE CHOOSE p \in starts : TRUE

\* C17: parse records as modifier the signed integer that ends the cleaned
\* text, 0 when there is none, and takes one DiceSet per dice token of the
\* text before it, in order, an omitted count being 1.
C17_ModifierExtraction ==
    (op \in {"roll", "stats"} /\ pc = "parsed") =>
      LET p == SignedSuffixStart
          c == Cleaned
          digits == SubSeq(c, p + 1, Len(c))
          before == IF p = 0 THEN c ELSE SubSeq(c, 1, p - 1)
          tokens == finditer(before, 1)
      IN  /\ parsed.modifier
               = (IF p = 0 THEN 0
                  ELSE IF c[p] = "-" THEN 0 - int(digits)
                  ELSE int(digits))
          /\ Len(parsed.dice_sets) = Len(tokens)
          /\ \A i \in 1..Len(tokens) :
               /\ parsed.dice_sets[i].count
                    = (IF tokens[i].count = <<>> THEN 1
                       ELSE int(tokens[i].count))
               /\ parsed.dice_sets[i].sides = int(tokens[i].sides)

\* a text of two dice tokens, the first without a count, and a negative
\* modifier was parsed
C17_Witness ==
    /\ pc = "parsed"
    /\ Len(parsed.dice_sets) = 2
    /\ parsed.modifier = -1
    /\ text[1] = "d"
    /\ parsed.dice_sets[1].count = 1
    /\ parsed.dice_sets[2].count = 2

\* C18: roll never raises on an expression parse returned: every set still
\* to be rolled has sides the random source accepts, and roll_dice_set
\* returns a whole result for each of its draws.
C18_RollerNeverRaises ==
    (op = "roll" /\ pc = "rolling"
       /\ Len(dice_results) < Len(parsed.dice_sets)) =>
      LET dice_set == parsed.dice_sets[Len(dice_results) + 1]
      IN  /\ dice_set.sides >= 1
          /\ dice_set.count >= 1
          /\ Draws(dice_set) # {}
          /\ \A rolls \in Draws(dice_set) :
               LET r == roll_dice_set(dice_set, rolls)
               IN  /\ r.rolls = rolls
                   /\ Len(r.kept_rolls) + Len(r.dropped_rolls)
                        = dice_set.count

\* a roll returned for three dice written with kl0, which drops them all
C18_Witness ==
    /\ op = "roll" /\ pc = "done"
    /\ Len(given) = 1
    /\ given[1].count = 3
    /\ given[1].drop_lowest = 3
    /\ result.dice_results[1].kept_rolls = <<>>
    /\ Len(result.dice_results[1].dropped_rolls) = 3

\* every entry of the rolls, kept rolls and dropped rolls lies in 1..sides
InRange(dr, sides) ==
    \A v \in Range(dr.rolls) \cup Range(dr.kept_rolls)
               \cup Range(dr.dropped_rolls) : v \in 1..sides

\* C19: every entry of rolls, kept_rolls and dropped_rolls of every result
\* lies in [1, sides] of the set that was rolled.
C19_RangeInvariant ==
    /\ Len(given) = Len(dice_results)
    /\ \A i \in 1..Len(dice_results) :
         InRange(dice_results[i], given[i].sides)
    /\ \A i \in 1..Len(result.dice_results) :
         InRange(result.dice_results[i], given[i].sides)

\* a returned roll of a three-sided set that rolled both a 1 and a 3 and
\* dropped one of them
C19_Witness ==
    /\ op = "roll" /\ pc = "done"
    /\ given[1].sides = 3
    /\ {1, 3} \subseteq Range(result.dice_results[1].rolls)
    /\ result.dice_results[1].dropped_rolls = <<1>>

OneRuleAtMost(ds) == ~(ds.keep_highest # None /\ ds.drop_lowest # None)

\* C20: every DiceSet parse produces, and every DiceSet handed to the roller
\* (by roll, roll_with_advantage or roll_with_disadvantage), has at most one
\* of keep_highest and drop_lowest set.
C20_OneRule ==
    /\ \A i \in 1..Len(parsed.dice_sets) : OneRuleAtMost(parsed.dice_sets[i])
    /\ \A i \in 1..Len(given) : OneRuleAtMost(given[i])

\* roll_with_disadvantage handed its rewritten set to the roller
C20_Witness ==
    /\ op = "disadvantage" /\ pc = "done"
    /\ given = <<[count |-> 2, sides |-> DefaultSides,
                  keep_highest |-> 1, drop_lowest |-> None]>>

\* the positions K split rolls into kept (K) and dropped (the others), each
\* in draw order, and among equal values the earlier positions are the
\* claimed ones: kept for a keep rule, dropped for a drop rule
StableSplit(ds, dr, K) ==
    LET all == 1..Len(dr.rolls)
    IN  /\ dr.kept_rolls = Pick(dr.rolls, K, 1)
        /\ dr.dropped_rolls = Pick(dr.rolls, all \ K, 1)
        /\ IF ds.keep_highest # None
             THEN \A j \in K, k \in all \ K :
                    dr.rolls[j] = dr.rolls[k] => j < k
           ELSE IF ds.drop_lowest # None
             THEN \A j \in all \ K, k \in K :
                    dr.rolls[j] = dr.rolls[k] => j < k
           ELSE K = all

\* C23: kept_rolls and dropped_rolls of a result of roll_dice_set are
\* subsequences of rolls in draw order, and of equal values competing for the
\* last kept (keep-highest) or last dropped (drop-lowest) slot the
\* earliest-drawn is the one claimed.
C23_StableTies ==
    (/\ \/ op = "roll" /\ pc = "rolling"
        \/ op = "advantage" /\ pc = "done"
     /\ Len(dice_results) > 0) =>
      LET i == Len(dice_results)
      IN  \E K \in SUBSET (1..Len(dice_results[i].rolls)) :
            StableSplit(given[i], dice_results[i], K)

\* three dice rolled 2, 1, 2 with kh1: the first 2 is kept, so the dropped
\* list is 1, 2 and not 2, 1
C23_Witness ==
    /\ op = "roll" /\ pc = "done"
    /\ given[1].keep_highest = 1
    /\ result.dice_results[1].rolls = <<2, 1, 2>>
    /\ result.dice_results[1].kept_rolls = <<2>>
    /\ result.dice_results[1].dropped_rolls = <<1, 2>>

RECURSIVE CountOfFirst(_, _)
CountOfFirst(sets, n) ==
    IF n = 0 THEN 0 ELSE CountOfFirst(sets, n - 1) + sets[n].count

\* C25: roll draws the dice of the sets in their order, the dice of one set
\* consecutively: dice_results[i] is the result of dice_sets[i], its rolls
\* are the i-th block of the draw sequence in draw order, and the returned
\* result holds one entry per set.
C25_DrawAlignment ==
    (op = "roll" /\ pc \in {"rolling", "done"}) =>
      /\ Len(dice_results) <= Len(parsed.dice_sets)
      /\ Len(given) = Len(dice_results)
      /\ Len(drawn) = CountOfFirst(parsed.dice_sets, Len(dice_results))
      /\ \A i \in 1..Len(dice_results) :
           /\ given[i] = parsed.dice_sets[i]
           /\ Len(dice_results[i].rolls) = parsed.dice_sets[i].count
           /\ dice_results[i].rolls
                = SubSeq(drawn, CountOfFirst(parsed.dice_sets, i - 1) + 1,
                         CountOfFirst(parsed.dice_sets, i))
      /\ pc = "done" =>
           /\ result.dice_results = dice_results
           /\ Len(dice_results) = Len(parsed.dice_sets)

\* two sets of two dice were rolled 1, 2 and then 2, 1
C25_Witness ==
    /\ op = "roll" /\ pc = "done"
    /\ drawn = <<1, 2, 2, 1>>
    /\ Len(result.dice_results) = 2
    /\ result.dice_results[1].rolls = <<1, 2>>
    /\ result.dice_results[2].rolls = <<2, 1>>

\* the same values, each as often
SameValues(a, b) ==
    \A v \in Range(a) \cup Range(b) : Occ(a, v) = Occ(b, v)

\* the set with keep_highest = n, and the set with drop_lowest = n
KeepHighest(ds, n) == [ds EXCEPT !.keep_highest = n, !.drop_lowest = None]
DropLowest(ds, n) == [ds EXCEPT !.keep_highest = None, !.drop_lowest = n]

\* C27: on the same draws, keep_highest = n and drop_lowest = count - n give
\* the same subtotal and the same kept and dropped values, each as often.
C27_KeepDropAgree ==
    (op = "roll" /\ pc = "rolling" /\ Len(dice_results) > 0) =>
      LET ds == given[Len(given)]
          rolls == dice_results[Len(dice_results)].rolls
      IN  \A n \in 0..ds.count :
            LET a == roll_dice_set(KeepHighest(ds, n), rolls)
                b == roll_dice_set(DropLowest(ds, ds.count - n), rolls)
            IN  /\ a.subtotal = b.subtotal
                /\ SameValues(a.kept_rolls, b.kept_rolls)
                /\ SameValues(a.dropped_rolls, b.dropped_rolls)

\* draws 1, 2, 1: kh2 keeps 1, 2 (the first 1) and dl1 keeps 2, 1 (the last)
C27_Witness ==
    /\ op = "roll" /\ pc = "rolling"
    /\ Len(dice_results) = 1
    /\ dice_results[1].rolls = <<1, 2, 1>>
    /\ roll_dice_set(KeepHighest(given[1], 2), <<1, 2, 1>>).kept_rolls
         = <<1, 2>>
    /\ roll_dice_set(DropLowest(given[1], 1), <<1, 2, 1>>).kept_rolls
         = <<2, 1>>

\* the calls of set that the last get could see, for its own arguments
SetsBeforeGet ==
    {i \in 1..got.calls : sets_log[i].request = got.request}

\* the most recent of them
LastSetBeforeGet ==
    sets_log[CHOOSE i \in SetsBeforeGet : \A j \in SetsBeforeGet : j <= i]

\* C21: a get less than 300 seconds after the most recent set with the same
\* location, units and data_type returns the data of that set, whatever
\* clear_expired calls came in between.
C21_ValidityWindow ==
    (got # NoGet /\ SetsBeforeGet # {}
       /\ got.at - LastSetBeforeGet.at < CacheSeconds) =>
      got.value = LastSetBeforeGet.data

BoundedRetryState ==
    /\ attempts = Len(seen)
    /\ attempts <= 4
    /\ retries = Len(waited)
    /\ waited = SubSeq(<<30, 60, 120>>, 1, Len(waited))
    /\ \A i \in 1..(Len(seen) - 1) : seen[i] = 429
    /\ req_pc = "loop" =>
         /\ attempts < 4
         /\ attempts = retries
         /\ \A i \in 1..Len(seen) : seen[i] = 429
    /\ req_pc # "loop" => Len(waited) = Len(seen) - 1
    /\ req_pc = "returned" =>
         /\ seen[Len(seen)] \in 1..399
    /\ (attempts = 4 /\ seen[4] = 429) => req_pc = "exit"
    /\ (Len(seen) > 0 /\ seen[Len(seen)] \notin (1..399) \cup {429}) =>
         req_pc \in {"exit", "raised"}

\* every turn of the loop is one more attempt, and _request stays ended
BoundedRetryStep ==
    /\ req_pc = "loop" => attempts' = attempts + 1
    /\ req_pc # "loop" => UNCHANGED request_vars

\* C30: _request terminates after at most 4 attempts; answered 429 it waits
\* 30, 60 and 120 seconds before its three retries and exits the process on
\* the fourth 429; it returns only a non-error response, and never retries
\* after another error status.
C30_BoundedRetry == [](BoundedRetryState) /\ [][BoundedRetryStep]_vars

\* the fourth 429 in a row ended the process after waits of 30, 60 and 120
C30_Witness ==
    /\ req_pc = "exit"
    /\ seen = <<429, 429, 429, 429>>
    /\ waited = <<30, 60, 120>>

\* the expression of the k-th result of a run without a flag: the results go
\* through the expressions in their order, once per repetition
ExpressionOfResult(k) ==
    cli_expressions[((k - 1) % Len(cli_expressions)) + 1]

\* the expressions are as parse_multiple produced them, and every result so
\* far was rolled by the rules and the modifier of its expression
InputAsParsed ==
    (cli_pc \in {"rolling", "done"}
       /\ ~args.advantage /\ ~args.disadvantage) =>
      /\ cli_expressions = parse_multiple(args.expression).expressions
      /\ \A k \in 1..Len(results) :
           LET e == ExpressionOfResult(k)
           IN  /\ results[k].modifier = e.modifier
               /\ Len(results[k].dice_results) = Len(e.dice_sets)
               /\ \A i \in 1..Len(e.dice_sets) :
                    /\ results[k].dice_results[i].dice_notation
                         = DiceSet_str(e.dice_sets[i])
                    /\ Len(results[k].dice_results[i].rolls)
                         = e.dice_sets[i].count

\* a roll changes neither the expressions nor the results returned before it
RollKeepsInput ==
    cli_pc = "rolling" =>
      /\ cli_expressions' = cli_expressions
      /\ Len(results') >= Len(results)
      /\ SubSeq(results', 1, Len(results)) = results

\* C26: however often roll is called, the dice sets, their order and the
\* modifier stay as parse produced them, a result returned earlier is not
\* altered by a later roll, and every repetition applies the same rules.
C26_InputUnchanged == [](InputAsParsed) /\ [][RollKeepsInput]_vars

\* "d2,2d2kh1" was rolled twice over; both rolls of 2d2kh1 dropped a die
C26_Witness ==
    /\ cli_pc = "done"
    /\ ~args.advantage /\ ~args.disadvantage
    /\ args.repeat = 2
    /\ Len(results) = 4
    /\ cli_expressions[2].dice_sets[1].keep_highest = 1
    /\ Len(results[2].dice_results[1].dropped_rolls) = 1
    /\ Len(results[4].dice_results[1].dropped_rolls) = 1

\* some non-empty comma-separated part of the text is rejected by parse
InvalidPart(t) ==
    LET parts == split(t)
    IN  \E i \in 1..Len(parts) :
          strip(parts[i]) # <<>> /\ ~parse(strip(parts[i])).ok

\* nothing was rolled or printed, and the run ended with a message on stderr
\* and status 1
Rejected ==
    /\ draws = 0
    /\ results = <<>>
    /\ stdout = NoOutput
    /\ cli_pc # "start" =>
         /\ cli_pc = "exit"
         /\ stderr # ""
         /\ exit_status = 1

\* C28 as stated: with both --advantage and --disadvantage, or with a part of
\* the expression that fails to parse, the roll command draws no die, prints
\* no result, writes an error to stderr and exits with status 1.
C28_RejectsInvalid ==
    (\/ args.advantage /\ args.disadvantage
     \/ InvalidPart(args.expression)) => Rejected

\* C28 amended: the same, the failing part counting only when neither flag is
\* given (with one flag the expression is not parsed at all).
C28_RejectsInvalidUnflagged ==
    (\/ args.advantage /\ args.disadvantage
     \/ ~args.advantage /\ ~args.disadvantage
          /\ InvalidPart(args.expression)) => Rejected

\* "d2,x" without a flag ended with status 1 and nothing drawn
C28_Witness ==
    /\ cli_pc = "exit"
    /\ ~args.advantage /\ ~args.disadvantage
    /\ args.expression = <<"d", "2", ",", "x">>
    /\ args.repeat = 2
    /\ exit_status = 1
    /\ stderr = "No valid dice notation found"
    /\ draws = 0

====
